---- MODULE Spec2Model ----
(***************************************************************************)
(* coq-config: reconciliation of a YAML environment description against    *)
(* the OPAM switches, the repositories of the target switch and the git    *)
(* checkouts on disk (src/coq-config.py).                                  *)
(*                                                                         *)
(* A run of main() is a sequence of steps, one per function main calls.    *)
(* The external tools (opam, git, the filesystem) are the environment:     *)
(* every executed command succeeds or fails (check_call / check_output     *)
(* raising), and a command that succeeds has its documented effect.        *)
(* `log` records every external command the run issues: the argv, whether  *)
(* it was executed or only printed ("DRY RUN: ..."), and whether it        *)
(* succeeded.                                                              *)
(*                                                                         *)
(* The tools are taken at their word: `opam switch create` defines the     *)
(* switch, `opam repo add` attaches the repository under the name given,   *)
(* `git clone` creates the path, `git checkout <commit>` moves it to the   *)
(* commit, `opam install --yes` installs, and the probes and               *)
(* `opam install --dry-run` change nothing.                                *)
(***************************************************************************)
EXTENDS Naturals, Sequences, FiniteSets, TLC

(* ------------------------------------------------------------------ *)
(* Bounds of the model                                                 *)
(* ------------------------------------------------------------------ *)
MaxRepos == 2

MaxExtra == 2

BoundedSeq(S, n) == UNION {[1..k -> S] : k \in 0..n}

(* ------------------------------------------------------------------ *)
(* Parsed YAML values: scalars carry their YAML type                    *)
(* ------------------------------------------------------------------ *)
Str(s) == [type |-> "string", val |-> s]

Flt(s) == [type |-> "float", val |-> s]

Bool(b) == [type |-> "boolean", val |-> b]

IsString(v) == v.type = "string"

IsBoolean(v) == v.type = "boolean"

(* dict.get(key, default) *)
Get(d, key, default) == IF key \in DOMAIN d THEN d[key] ELSE default

(* ------------------------------------------------------------------ *)
(* SCHEMA and cerberus validation (unknown keys are rejected, which is  *)
(* cerberus' default)                                                   *)
(* ------------------------------------------------------------------ *)
ValidOpam(o) ==
    /\ DOMAIN o \subseteq {"switch", "compiler"}
    /\ "switch" \in DOMAIN o /\ IsString(o.switch)
    /\ "compiler" \in DOMAIN o /\ IsString(o.compiler)

ValidExtraDep(e) ==
    /\ DOMAIN e \subseteq {"git", "commit", "recurse-submodules", "path"}
    /\ "git" \in DOMAIN e /\ IsString(e.git)
    /\ "commit" \in DOMAIN e => IsString(e.commit)
    /\ "recurse-submodules" \in DOMAIN e => IsBoolean(e["recurse-submodules"])
    /\ "path" \in DOMAIN e /\ IsString(e.path)

ValidRepository(r) ==
    /\ DOMAIN r \subseteq {"name", "address"}
    /\ "name" \in DOMAIN r /\ IsString(r.name)
    /\ "address" \in DOMAIN r /\ IsString(r.address)

Validate(doc) ==
    /\ DOMAIN doc \subseteq {"opam", "dependencies", "extra-deps", "repositories"}
    /\ "opam" \in DOMAIN doc /\ ValidOpam(doc.opam)
    /\ "dependencies" \in DOMAIN doc =>
          \A i \in DOMAIN doc.dependencies : IsString(doc.dependencies[i])
    /\ "extra-deps" \in DOMAIN doc =>
          \A i \in DOMAIN doc["extra-deps"] : ValidExtraDep(doc["extra-deps"][i])
    /\ "repositories" \in DOMAIN doc =>
          \A i \in DOMAIN doc.repositories : ValidRepository(doc.repositories[i])

(* ------------------------------------------------------------------ *)
(* The documents the configuration file may hold                        *)
(* ------------------------------------------------------------------ *)
TargetSwitch == "4.14"

Compiler == "4.14.0"

SwitchNames == {"default", TargetSwitch}

(* the second name is written with a leading blank (`name: " coq-extra-dev"`) *)
RepoEntries ==
    { [name |-> Str("coq-released"), address |-> Str("https://coq.inria.fr/opam/released")],
      [name |-> Str(" coq-extra-dev"), address |-> Str("https://coq.inria.fr/opam/extra-dev")] }

RepoNames == {r.name.val : r \in RepoEntries}

ExtraEntries ==
    { [git |-> Str("https://example.com/x.git"), path |-> Str("./x"),
       commit |-> Str("abc123")],
      [git |-> Str("https://example.com/y.git"), path |-> Str("./y")]
         @@ ("recurse-submodules" :> Bool(TRUE)) }

PathNames == {e.path.val : e \in ExtraEntries}

DepLists == { <<>>, <<Str("coq"), Str("coq-ext-lib")>> }

Packages == {"coq", "coq-ext-lib"}

GoodOpam == [switch |-> Str(TargetSwitch), compiler |-> Str(Compiler)]

(* every optional section present or omitted *)
Optional(key, values) == {<<>>} \cup {key :> v : v \in values}

ValidDocs ==
    { [opam |-> GoodOpam] @@ r @@ d @@ e :
         r \in Optional("repositories", BoundedSeq(RepoEntries, MaxRepos)),
         d \in Optional("dependencies", DepLists),
         e \in Optional("extra-deps", BoundedSeq(ExtraEntries, MaxExtra)) }

(* a switch named by the empty string passes the schema *)
EmptySwitchDoc ==
    [opam |-> [switch |-> Str(""), compiler |-> Str(Compiler)],
     repositories |-> <<>>, dependencies |-> <<>>] @@ ("extra-deps" :> <<>>)

(* `switch: 4.14` unquoted is a YAML float; required keys missing *)
InvalidDocs ==
    { [opam |-> [switch |-> Flt("4.14"), compiler |-> Str(Compiler)]],
      [opam |-> [compiler |-> Str(Compiler)]],
      [opam |-> [switch |-> Str(TargetSwitch)]],
      [dependencies |-> <<Str("coq")>>] }

Docs == ValidDocs \cup {EmptySwitchDoc} \cup InvalidDocs

ConfigFiles ==
    { [exists |-> FALSE, parses |-> FALSE, doc |-> [opam |-> GoodOpam]],
      [exists |-> TRUE, parses |-> FALSE, doc |-> [opam |-> GoodOpam]] }
    \cup { [exists |-> TRUE, parses |-> TRUE, doc |-> d] : d \in Docs }

NoCfg == <<>>

(* ------------------------------------------------------------------ *)
(* State                                                               *)
(* ------------------------------------------------------------------ *)
VARIABLES
    cfgfile,     \* the file named by --config
    verbose,     \* --verbose
    dry_run,     \* --dry-run
    opamroot,    \* os.path.exists(~/.opam)
    actual,      \* [switches, repos, paths, installed]: the actual state
    pc,          \* position of main()
    cfg,         \* main's cfg
    switches,    \* main's switches (the probed list)
    repos,       \* main's repos (the probed list)
    idx,         \* position of the for loop main is in
    log,         \* the external commands issued so far
    exitcode,    \* the process exit status, once pc = "done"
    start,       \* the actual state the run started in
    kind,        \* "first", "rerun" or "replay": which run this is
    prev         \* the finished earlier run, if any

vars == <<cfgfile, verbose, dry_run, opamroot, actual, pc, cfg, switches, repos,
          idx, log, exitcode, start, kind, prev>>

inputs == <<cfgfile, verbose, dry_run, opamroot, start, kind, prev>>

(* ------------------------------------------------------------------ *)
(* The environment                                                     *)
(* ------------------------------------------------------------------ *)
(* what `opam ... list -s` writes for a set of names: one line per name *)
Stdout(names) == names

(* text.split('\n'): the lines, and the empty string after the last newline *)
Split(out) == out \cup {""}

(* str.strip, on the strings of the model: the text without the white space
   around it *)
Stripped == (" coq-extra-dev" :> "coq-extra-dev")

Strip(s) == IF s \in DOMAIN Stripped THEN Stripped[s] ELSE s

ParseNames(out) == {Strip(s) : s \in Split(out)}

ActualStates ==
    { [switches |-> S, repos |-> R, paths |-> P, installed |-> {}] :
         S \in SUBSET SwitchNames \ {{}},
         R \in SUBSET RepoNames,
         P \in [PathNames -> {"absent", "HEAD"}] }

(* a switch that does not exist has no repositories attached *)
Consistent(a) == TargetSwitch \notin a.switches => a.repos = {}

NoPrev == <<>>

(* whether an executed command succeeds: free, except in a replay, which
   meets the outcomes the first run met *)
Outcomes ==
    IF kind = "replay" /\ Len(log) < Len(prev.log)
    THEN {prev.log[Len(log) + 1].ok}
    ELSE BOOLEAN

Entry(cmd, mode, ok) == [cmd |-> cmd, mode |-> mode, ok |-> ok]

Issue(cmd, mode, ok) == log' = Append(log, Entry(cmd, mode, ok))

(* sys.exit(code), and an uncaught exception (status 1) *)
Exit(code) == pc' = "done" /\ exitcode' = code

UncaughtException == Exit(1)

Init ==
    /\ cfgfile \in ConfigFiles
    /\ verbose \in BOOLEAN
    /\ dry_run \in BOOLEAN
    /\ opamroot \in BOOLEAN
    /\ actual \in {a \in ActualStates : Consistent(a)}
    /\ pc = "load_config"
    /\ cfg = NoCfg
    /\ switches = {}
    /\ repos = {}
    /\ idx = 0
    /\ log = <<>>
    /\ exitcode = 0
    /\ start = actual
    /\ kind = "first"
    /\ prev = NoPrev

(* ------------------------------------------------------------------ *)
(* load_config, opam_check and the probes                               *)
(* ------------------------------------------------------------------ *)
LoadConfig ==
    /\ pc = "load_config"
    /\ IF ~cfgfile.exists
       THEN Exit(1) /\ UNCHANGED cfg
       ELSE IF ~cfgfile.parses
       THEN Exit(1) /\ UNCHANGED cfg
       ELSE IF ~Validate(cfgfile.doc)
       THEN Exit(1) /\ UNCHANGED cfg
       ELSE cfg' = cfgfile.doc /\ pc' = "opam_check" /\ UNCHANGED exitcode
    /\ UNCHANGED <<inputs, actual, switches, repos, idx, log>>

OpamCheck ==
    /\ pc = "opam_check"
    /\ IF ~opamroot
       THEN Exit(2)
       ELSE pc' = "get_switches" /\ UNCHANGED exitcode
    /\ UNCHANGED <<inputs, actual, cfg, switches, repos, idx, log>>

OpamGetSwitches ==
    /\ pc = "get_switches"
    /\ \E ok \in Outcomes :
          /\ Issue(<<"opam", "switch", "list", "-s">>, "exec", ok)
          /\ IF ok
             THEN /\ switches' = ParseNames(Stdout(actual.switches))
                  /\ pc' = "switch"
                  /\ UNCHANGED exitcode
             ELSE Exit(2) /\ UNCHANGED switches
    /\ UNCHANGED <<inputs, actual, cfg, repos, idx>>

Switch == cfg.opam.switch.val

OpamGetRepositoris ==
    /\ pc = "get_repos"
    /\ \E ok \in Outcomes :
          /\ Issue(<<"opam", "repo", "list", "-s", "--on-switches=" \o Switch>>,
                   "exec", ok)
          /\ IF ok
             THEN /\ repos' = ParseNames(Stdout(actual.repos))
                  /\ pc' = "repositories"
                  /\ idx' = 1
                  /\ UNCHANGED exitcode
             ELSE Exit(2) /\ UNCHANGED <<repos, idx>>
    /\ UNCHANGED <<inputs, actual, cfg, switches>>

(* ------------------------------------------------------------------ *)
(* The switch                                                          *)
(* ------------------------------------------------------------------ *)
(* `cmd = [...]` is assigned under `if verbose:` *)
CmdAssigned == verbose

SwitchInList == Switch \in switches

SwitchFound ==
    /\ pc = "switch"
    /\ SwitchInList
    /\ pc' = "get_repos"
    /\ UNCHANGED <<inputs, actual, cfg, switches, repos, idx, log, exitcode>>

SwitchCreateCmd ==
    <<"opam", "switch", "create", "--no-switch", Switch, cfg.opam.compiler.val>>

OpamSwitchCreate ==
    /\ pc = "switch"
    /\ ~SwitchInList
    /\ IF ~CmdAssigned
       THEN Exit(3) /\ UNCHANGED <<log, actual>>
       ELSE IF dry_run
       THEN /\ Issue(SwitchCreateCmd, "print", TRUE)
            /\ pc' = "get_repos"
            /\ UNCHANGED <<actual, exitcode>>
       ELSE \E ok \in Outcomes :
               /\ Issue(SwitchCreateCmd, "exec", ok)
               /\ IF ok
                  THEN /\ actual' = [actual EXCEPT !.switches = @ \cup {Switch}]
                       /\ pc' = "get_repos"
                       /\ UNCHANGED exitcode
                  ELSE Exit(3) /\ UNCHANGED actual
    /\ UNCHANGED <<inputs, cfg, switches, repos, idx>>

(* ------------------------------------------------------------------ *)
(* The repositories                                                    *)
(* ------------------------------------------------------------------ *)
MissingRepositories ==
    /\ pc = "repositories"
    /\ "repositories" \notin DOMAIN cfg
    /\ UncaughtException
    /\ UNCHANGED <<inputs, actual, cfg, switches, repos, idx, log>>

HasRepo == "repositories" \in DOMAIN cfg /\ idx \in DOMAIN cfg.repositories

RepoName == cfg.repositories[idx].name.val

RepoInList == RepoName \in repos

RepoFound ==
    /\ pc = "repositories"
    /\ HasRepo
    /\ RepoInList
    /\ idx' = idx + 1
    /\ UNCHANGED <<inputs, actual, cfg, switches, repos, pc, log, exitcode>>

RepoAddCmd ==
    <<"opam", "repo", "add", RepoName, cfg.repositories[idx].address.val,
      "--on-switches=" \o Switch>>

OpamRepoAdd ==
    /\ pc = "repositories"
    /\ HasRepo
    /\ ~RepoInList
    /\ IF ~CmdAssigned
       THEN Exit(3) /\ UNCHANGED <<log, actual, idx>>
       ELSE IF dry_run
       THEN /\ Issue(RepoAddCmd, "print", TRUE)
            /\ idx' = idx + 1
            /\ UNCHANGED <<actual, pc, exitcode>>
       ELSE \E ok \in Outcomes :
               /\ Issue(RepoAddCmd, "exec", ok)
               /\ IF ok
                  THEN /\ actual' = [actual EXCEPT !.repos = @ \cup {RepoName}]
                       /\ idx' = idx + 1
                       /\ UNCHANGED <<pc, exitcode>>
                  ELSE Exit(3) /\ UNCHANGED <<actual, idx>>
    /\ UNCHANGED <<inputs, cfg, switches, repos>>

RepositoriesDone ==
    /\ pc = "repositories"
    /\ "repositories" \in DOMAIN cfg
    /\ idx > Len(cfg.repositories)
    /\ pc' = "install"
    /\ UNCHANGED <<inputs, actual, cfg, switches, repos, idx, log, exitcode>>

(* ------------------------------------------------------------------ *)
(* The packages                                                        *)
(* ------------------------------------------------------------------ *)
MissingDependencies ==
    /\ pc = "install"
    /\ "dependencies" \notin DOMAIN cfg
    /\ UncaughtException
    /\ UNCHANGED <<inputs, actual, cfg, switches, repos, idx, log>>

PackageArgs == [i \in DOMAIN cfg.dependencies |-> cfg.dependencies[i].val]

InstallCmd_AlwaysYes ==
    <<"opam", "install", "--yes", "--switch=" \o Switch>> \o PackageArgs

InstallCmd ==
    IF dry_run
    THEN <<"opam", "install", "--dry-run", "--switch=" \o Switch>> \o PackageArgs
    ELSE <<"opam", "install", "--yes", "--switch=" \o Switch>> \o PackageArgs

InstallEffect(ok) ==
    IF ok
    THEN IF InstallCmd[3] = "--dry-run" THEN actual
         ELSE [actual EXCEPT !.installed =
                  @ \cup {PackageArgs[i] : i \in DOMAIN PackageArgs}]
    ELSE actual

(* main calling the install before the loop over the repositories *)
OpamInstallPackages_BeforeRepositories ==
    /\ pc = "repositories"
    /\ idx = 1
    /\ "dependencies" \in DOMAIN cfg
    /\ \A i \in DOMAIN log : log[i].cmd[2] # "install"
    /\ \E ok \in Outcomes :
          /\ Issue(InstallCmd, "exec", ok)
          /\ actual' = InstallEffect(ok)
          /\ IF ok THEN UNCHANGED <<pc, exitcode>> ELSE Exit(3)
    /\ UNCHANGED <<inputs, cfg, switches, repos, idx>>

OpamInstallPackages ==
    /\ pc = "install"
    /\ "dependencies" \in DOMAIN cfg
    /\ \E ok \in Outcomes :
          /\ Issue(InstallCmd, "exec", ok)
          /\ IF ok
             THEN /\ actual' = InstallEffect(ok)
                  /\ pc' = "extra_deps"
                  /\ idx' = 1
                  /\ UNCHANGED exitcode
             ELSE Exit(3) /\ UNCHANGED <<actual, idx>>
    /\ UNCHANGED <<inputs, cfg, switches, repos>>

(* ------------------------------------------------------------------ *)
(* The extra dependencies                                              *)
(* ------------------------------------------------------------------ *)
MissingExtraDeps ==
    /\ pc = "extra_deps"
    /\ "extra-deps" \notin DOMAIN cfg
    /\ UncaughtException
    /\ UNCHANGED <<inputs, actual, cfg, switches, repos, idx, log>>

HasExtra == "extra-deps" \in DOMAIN cfg /\ idx \in DOMAIN cfg["extra-deps"]

Dep == cfg["extra-deps"][idx]

DepPath == Dep.path.val

DepRs == Get(Dep, "recurse-submodules", Bool(FALSE)).val

PathOnDisk == actual.paths[DepPath] # "absent"

PathExists ==
    /\ pc = "extra_deps"
    /\ HasExtra
    /\ PathOnDisk
    /\ pc' = "checkout"
    /\ UNCHANGED <<inputs, actual, cfg, switches, repos, idx, log, exitcode>>

CloneCmd ==
    IF DepRs
    THEN <<"git", "clone", "--recurse-submodules", Dep.git.val, DepPath>>
    ELSE <<"git", "clone", "-n", Dep.git.val, DepPath>>

GitClone ==
    /\ pc = "extra_deps"
    /\ HasExtra
    /\ ~PathOnDisk
    /\ IF ~CmdAssigned
       THEN Exit(3) /\ UNCHANGED <<log, actual>>
       ELSE IF dry_run
       THEN /\ Issue(CloneCmd, "print", TRUE)
            /\ pc' = "checkout"
            /\ UNCHANGED <<actual, exitcode>>
       ELSE \E ok \in Outcomes :
               /\ Issue(CloneCmd, "exec", ok)
               /\ IF ok
                  THEN /\ actual' = [actual EXCEPT !.paths[DepPath] = "HEAD"]
                       /\ pc' = "checkout"
                       /\ UNCHANGED exitcode
                  ELSE Exit(3) /\ UNCHANGED actual
    /\ UNCHANGED <<inputs, cfg, switches, repos, idx>>

CheckoutCmd ==
    <<"git", "checkout">>
       \o (IF DepRs THEN <<"--recurse-submodules">> ELSE <<>>)
       \o (IF "commit" \in DOMAIN Dep THEN <<Dep.commit.val>> ELSE <<>>)

GitCheckout ==
    /\ pc = "checkout"
    /\ IF ~CmdAssigned
       THEN Exit(3) /\ UNCHANGED <<log, actual, idx>>
       ELSE IF dry_run
       THEN /\ Issue(CheckoutCmd, "print", TRUE)
            /\ pc' = "extra_deps"
            /\ idx' = idx + 1
            /\ UNCHANGED <<actual, exitcode>>
       ELSE \E ok \in Outcomes :
               /\ Issue(CheckoutCmd, "exec", ok)
               /\ IF ok
                  THEN /\ actual' = IF "commit" \in DOMAIN Dep
                                    THEN [actual EXCEPT !.paths[DepPath] = Dep.commit.val]
                                    ELSE actual
                       /\ pc' = "extra_deps"
                       /\ idx' = idx + 1
                       /\ UNCHANGED exitcode
                  ELSE Exit(3) /\ UNCHANGED <<actual, idx>>
    /\ UNCHANGED <<inputs, cfg, switches, repos>>

(* sys.exit(0) *)
ExtraDepsDone ==
    /\ pc = "extra_deps"
    /\ "extra-deps" \in DOMAIN cfg
    /\ idx > Len(cfg["extra-deps"])
    /\ Exit(0)
    /\ UNCHANGED <<inputs, actual, cfg, switches, repos, idx, log>>

(* ------------------------------------------------------------------ *)
(* One run of main()                                                   *)
(* ------------------------------------------------------------------ *)
Next ==
    \/ LoadConfig
    \/ OpamCheck
    \/ OpamGetSwitches
    \/ SwitchFound
    \/ OpamSwitchCreate
    \/ OpamGetRepositoris
    \/ MissingRepositories
    \/ RepoFound
    \/ OpamRepoAdd
    \/ RepositoriesDone
    \/ MissingDependencies
    \/ OpamInstallPackages
    \/ MissingExtraDeps
    \/ PathExists
    \/ GitClone
    \/ GitCheckout
    \/ ExtraDepsDone

Spec == Init /\ [][Next]_vars

(* ------------------------------------------------------------------ *)
(* A second invocation of the command                                   *)
(* ------------------------------------------------------------------ *)
Finished == [verbose |-> verbose, dry_run |-> dry_run, exitcode |-> exitcode,
             log |-> log, actual |-> actual]

Restart ==
    /\ pc' = "load_config"
    /\ cfg' = NoCfg
    /\ switches' = {}
    /\ repos' = {}
    /\ idx' = 0
    /\ log' = <<>>
    /\ exitcode' = 0

(* the command is run again, with the same file, on the state a successful
   run left *)
Rerun ==
    /\ pc = "done"
    /\ kind = "first"
    /\ exitcode = 0
    /\ ~dry_run
    /\ kind' = "rerun"
    /\ prev' = Finished
    /\ verbose' \in BOOLEAN
    /\ dry_run' \in BOOLEAN
    /\ start' = actual
    /\ Restart
    /\ UNCHANGED <<cfgfile, opamroot, actual>>

(* the command is run without --verbose from the state the verbose run
   started in, every external command ending as it did in that run *)
Replay ==
    /\ pc = "done"
    /\ kind = "first"
    /\ verbose
    /\ kind' = "replay"
    /\ prev' = Finished
    /\ verbose' = FALSE
    /\ actual' = start
    /\ Restart
    /\ UNCHANGED <<cfgfile, dry_run, opamroot, start>>

NextRerun == Next \/ Rerun

SpecRerun == Init /\ [][NextRerun]_vars

InitPair == Init /\ verbose

NextPair == Next \/ Replay

SpecPair == InitPair /\ [][NextPair]_vars

(* ------------------------------------------------------------------ *)
(* Reading the log                                                     *)
(* ------------------------------------------------------------------ *)
Kind(e) ==
    IF e.cmd[1] = "git" THEN e.cmd[2]
    ELSE IF e.cmd[2] = "install" THEN "install"
    ELSE e.cmd[2] \o " " \o e.cmd[3]

Issued(l, kinds) == {i \in DOMAIN l : Kind(l[i]) \in kinds}

Last(l) == l[Len(l)]

IssuesOne == Len(log') = Len(log) + 1

ExistingPaths(a) == {p \in PathNames : a.paths[p] # "absent"}

ConfigBad == ~cfgfile.exists \/ ~cfgfile.parses \/ ~Validate(cfgfile.doc)

Omits == {k \in {"repositories", "dependencies", "extra-deps"} : k \notin DOMAIN cfg}

(* ------------------------------------------------------------------ *)
(* C1.  A successful non-dry run followed by a second non-dry run with  *)
(* the same file: the second run issues no create-switch, no            *)
(* add-repository and no clone, and leaves the switches, the            *)
(* repositories and the set of existing paths as it found them.         *)
(* ------------------------------------------------------------------ *)
C1_Idempotence ==
    (kind = "rerun" /\ ~prev.dry_run /\ prev.exitcode = 0 /\ ~dry_run) =>
        /\ Issued(log, {"switch create", "repo add", "clone"}) = {}
        /\ actual.switches = start.switches
        /\ actual.repos = start.repos
        /\ ExistingPaths(actual) = ExistingPaths(start)

(* ------------------------------------------------------------------ *)
(* C2.  A run with --dry-run, verbose or not, leaves the actual state   *)
(* (switches, repositories, paths and their contents) as it was, and    *)
(* executes nothing but the probes and `opam install --dry-run`.        *)
(* ------------------------------------------------------------------ *)
C2_DryRunInvariance ==
    dry_run =>
        /\ actual = start
        /\ \A i \in DOMAIN log :
              log[i].mode = "exec" =>
                 \/ Kind(log[i]) \in {"switch list", "repo list"}
                 \/ Kind(log[i]) = "install" /\ log[i].cmd[3] = "--dry-run"

(* a finished dry run that had a switch to create, a repository to add, a
   clone and a checkout to make, and ran the install query *)
C2_Witness ==
    /\ dry_run /\ pc = "done" /\ exitcode = 0
    /\ \A k \in {"switch create", "repo add", "clone", "checkout"} :
          \E i \in Issued(log, {k}) : log[i].mode = "print"
    /\ \E i \in Issued(log, {"install"}) : log[i].mode = "exec"

(* ------------------------------------------------------------------ *)
(* C3.  At the switch stage: the desired switch in the probed list      *)
(* means no command; otherwise the step issues one create-switch for    *)
(* the desired switch and compiler, with --no-switch.                   *)
(* ------------------------------------------------------------------ *)
C3_SwitchReconciliation ==
    [][pc = "switch" =>
          IF Switch \in switches
          THEN log' = log
          ELSE /\ IssuesOne
               /\ Last(log').cmd = <<"opam", "switch", "create", "--no-switch",
                                     cfg.opam.switch.val, cfg.opam.compiler.val>>]_vars

(* ------------------------------------------------------------------ *)
(* C4.  At each entry of `repositories`: an add-repository (name,       *)
(* address, on the target switch) is issued if and only if the name is  *)
(* not in the probed repository list.                                   *)
(* ------------------------------------------------------------------ *)
C4_RepositoryReconciliation ==
    [][(pc = "repositories" /\ HasRepo) =>
          IF cfg.repositories[idx].name.val \in repos
          THEN log' = log
          ELSE /\ IssuesOne
               /\ Last(log').cmd = <<"opam", "repo", "add",
                                     cfg.repositories[idx].name.val,
                                     cfg.repositories[idx].address.val,
                                     "--on-switches=" \o cfg.opam.switch.val>>]_vars

(* ------------------------------------------------------------------ *)
(* C5.  At each entry of `extra-deps`: a clone is issued if and only if *)
(* the path does not exist when the entry is reached, and once the      *)
(* clone is made or skipped the next step issues a checkout (of the     *)
(* entry's commit when it has one).                                     *)
(* ------------------------------------------------------------------ *)
C5_ExtraDepMaterialization ==
    [][/\ (pc = "extra_deps" /\ HasExtra) =>
             IF actual.paths[DepPath] = "absent"
             THEN IssuesOne /\ Kind(Last(log')) = "clone"
                  /\ Last(log').cmd[Len(Last(log').cmd)] = DepPath
             ELSE log' = log
       /\ pc = "checkout" =>
             /\ IssuesOne /\ Kind(Last(log')) = "checkout"
             /\ "commit" \in DOMAIN Dep =>
                   Last(log').cmd[Len(Last(log').cmd)] = Dep.commit.val]_vars

(* ------------------------------------------------------------------ *)
(* C6.  A document that omits `dependencies`, `repositories` or         *)
(* `extra-deps` is accepted by the loader, nothing is issued for an     *)
(* omitted section, and the run ends with exit code 0 when every        *)
(* external command succeeds.  Stated for verbose runs, in which every  *)
(* command the run needs is built.                                      *)
(* ------------------------------------------------------------------ *)
C6_OptionalSectionsDefaultEmpty ==
    (verbose /\ cfgfile.exists /\ cfgfile.parses /\ Validate(cfgfile.doc)
       /\ pc = "done" /\ opamroot /\ \A i \in DOMAIN log : log[i].ok) =>
        /\ cfg = cfgfile.doc
        /\ "repositories" \in Omits => Issued(log, {"repo add"}) = {}
        /\ "extra-deps" \in Omits => Issued(log, {"clone", "checkout"}) = {}
        /\ Omits # {} => exitcode = 0

(* ------------------------------------------------------------------ *)
(* C7.  The run without --verbose issues the same sequence of external  *)
(* commands, and ends with the same exit code, as the run with          *)
(* --verbose from the same file, flags and actual state.                *)
(* ------------------------------------------------------------------ *)
C7_VerboseOnlyNarrates ==
    (kind = "replay" /\ pc = "done") =>
        /\ log = prev.log
        /\ exitcode = prev.exitcode

(* ------------------------------------------------------------------ *)
(* C8.  A finished run has exit code 1 iff the file is missing,         *)
(* unparsable or violates the schema; 2 iff ~/.opam is missing or a     *)
(* probe failed; 3 iff a mutating command failed; 0 iff every stage     *)
(* completed.                                                           *)
(* ------------------------------------------------------------------ *)
ProbeFailed == \E i \in Issued(log, {"switch list", "repo list"}) : ~log[i].ok

MutationFailed ==
    \E i \in Issued(log, {"switch create", "repo add", "install", "clone", "checkout"}) :
       ~log[i].ok

C8_ExitCodeMapping ==
    pc = "done" =>
        /\ exitcode \in {0, 1, 2, 3}
        /\ exitcode = 1 <=> ConfigBad
        /\ exitcode = 2 <=> (~ConfigBad /\ (~opamroot \/ ProbeFailed))
        /\ exitcode = 3 <=> MutationFailed
        /\ exitcode = 0 <=> (~ConfigBad /\ opamroot /\ \A i \in DOMAIN log : log[i].ok)

(* ------------------------------------------------------------------ *)
(* C9.  The mutating actions of a run come in the order create-switch,  *)
(* add-repository, install, clone/checkout; no earlier stage follows a  *)
(* later one.                                                           *)
(* ------------------------------------------------------------------ *)
Stage(e) ==
    CASE Kind(e) = "switch create" -> 1
      [] Kind(e) = "repo add" -> 2
      [] Kind(e) = "install" -> 3
      [] Kind(e) \in {"clone", "checkout"} -> 4
      [] OTHER -> 0

C9_StageOrdering ==
    \A i, j \in DOMAIN log :
       (i < j /\ Stage(log[i]) > 0 /\ Stage(log[j]) > 0) =>
          /\ Stage(log[i]) <= Stage(log[j])
          /\ Stage(log[i]) = Stage(log[j]) => Stage(log[i]) \in {2, 4}

(* a run that went through all four stages *)
C9_Witness ==
    /\ pc = "done" /\ exitcode = 0
    /\ \A k \in {"switch create", "repo add", "install", "clone", "checkout"} :
          Issued(log, {k}) # {}

(* ------------------------------------------------------------------ *)
(* C10.  Whenever the repository probe, an add-repository or the        *)
(* install command runs against the target switch, that switch exists.  *)
(* (A run never removes a switch, so the switch missing now was missing *)
(* when the command ran.)  Stated for a switch with a non-empty name.   *)
(* ------------------------------------------------------------------ *)
C10_SwitchVisible ==
    \A i \in Issued(log, {"repo list", "repo add", "install"}) :
       (log[i].mode = "exec" /\ Switch # "") => Switch \in actual.switches
====
